---- MODULE Spec2Model ----
(***************************************************************************)
(* CrossLingualLMTask (fairseq/tasks/cross_lingual_lm.py): the language-id *)
(* mapping built at construction and the per-split dataset registry filled *)
(* by load_dataset.                                                        *)
(*                                                                         *)
(* Strings are sequences of one-character strings.  A Python dict (and an  *)
(* OrderedDict) is a record [keys, val]: keys is the sequence of keys in   *)
(* insertion order, which is the order keys() iterates in, and val the     *)
(* function from the keys to their values.  The shard files on disk belong *)
(* to the environment: each load_dataset call meets any set of them.       *)
(***************************************************************************)
EXTENDS Integers, Sequences, FiniteSets, TLC

VARIABLES
    phase,        \* "new" before __init__ has run, "ready" after
    args,         \* the parsed command line (add_args)
    dictionary,   \* the vocabulary handed to __init__: its pad, eos, mask ids
    langs2id,     \* self.langs2id
    default_key,  \* self.default_key
    datasets,     \* self.datasets: split -> merged dataset
    nloads,       \* load_dataset calls made so far; names the objects built
    last          \* the last load_dataset call: its split, whether the registry had
                  \* the split, the files of the paths it came to, whether it
                  \* raised, its exists() calls, and per language the class opened

vars == <<phase, args, dictionary, langs2id, default_key, datasets, nloads, last>>

---------------------------------------------------------------------------
(* Bounds *)

\* longest --monolingual-langs string of the construction specification
MaxLen == 5
\* load_dataset calls in one run
MaxLoads == 3
\* --tokens-per-sample ranges over 1..MaxTokens and the default
MaxTokens == 2

\* default of --tokens-per-sample
DefaultTokensPerSample == 512

---------------------------------------------------------------------------
(* Values *)

\* Python's None; no string over the alphabet equals it
None == <<"None">>

Whitespace == {" "}
Alphabet == {"e", "f", " ", ","}

Range(s) == {s[i] : i \in 1..Len(s)}

\* all strings over Alphabet of length at most n
StringsUpTo(n) == UNION {[1..k -> Alphabet] : k \in 0..n}

EmptyDict == [keys |-> <<>>, val |-> <<>>]

\* d[k] = v
DictSet(d, k, v) ==
    IF k \in Range(d.keys)
    THEN [keys |-> d.keys, val |-> [d.val EXCEPT ![k] = v]]
    ELSE [keys |-> Append(d.keys, k), val |-> (k :> v) @@ d.val]

---------------------------------------------------------------------------
(* __lang_to_id *)

\* str.split(','): the pieces between the commas, at least one
RECURSIVE SplitFrom(_, _, _)
SplitFrom(s, i, cur) ==
    IF i > Len(s) THEN <<cur>>
    ELSE IF s[i] = "," THEN <<cur>> \o SplitFrom(s, i + 1, <<>>)
    ELSE SplitFrom(s, i + 1, Append(cur, s[i]))

Split(s) == SplitFrom(s, 1, <<>>)

RECURSIVE LStrip(_)
LStrip(t) ==
    IF t # <<>> /\ Head(t) \in Whitespace THEN LStrip(Tail(t)) ELSE t

RECURSIVE RStrip(_)
RStrip(t) ==
    IF t # <<>> /\ t[Len(t)] \in Whitespace
    THEN RStrip(SubSeq(t, 1, Len(t) - 1)) ELSE t

\* a mutant: only the leading whitespace is removed
StripLeftOnly(t) == LStrip(t)

\* str.strip()
Strip(t) == RStrip(LStrip(t))

\* for id, lang in enumerate(langs): lang2id[lang] = id
RECURSIVE Enumerate(_, _, _)
Enumerate(langs, id, lang2id) ==
    IF langs = <<>> THEN lang2id
    ELSE Enumerate(Tail(langs), id + 1, DictSet(lang2id, Head(langs), id))

\* a mutant: a language already in the map keeps its first id
RECURSIVE EnumerateFirstWins(_, _, _)
EnumerateFirstWins(langs, id, lang2id) ==
    IF langs = <<>> THEN lang2id
    ELSE EnumerateFirstWins(Tail(langs), id + 1,
            IF Head(langs) \in Range(lang2id.keys) THEN lang2id
            ELSE DictSet(lang2id, Head(langs), id))

_lang_to_id_first_wins(languages) ==
    EnumerateFirstWins([i \in 1..Len(Split(languages)) |-> Strip(Split(languages)[i])],
                       0, EmptyDict)

_lang_to_id(languages) ==
    LET langs == [i \in 1..Len(Split(languages)) |-> Strip(Split(languages)[i])]
    IN  Enumerate(langs, 0, EmptyDict)

---------------------------------------------------------------------------
(* load_dataset *)

Splits == {"train", "valid"}
Kinds == {"raw", "idx"}

\* os.path.join(self.args.data, '{}.{}'.format(split, lang))
PathOf(split, lang) == <<args.data, split, lang>>

\* the shard files a call for split can meet: a file is <<path, kind>>
FilesOf(split) == {<<PathOf(split, lang), k>> : lang \in Range(langs2id.keys), k \in Kinds}

\* IndexedRawTextDataset.exists(path), IndexedDataset.exists(path)
RawTextExists(fs, path) == <<path, "raw">> \in fs
IndexedExists(fs, path) == <<path, "idx">> \in fs

NotFound == "FileNotFoundError"

\* a mutant: a binary-indexed shard is the fallback of raw-text mode too
ResolveFallback(raw_text, lazy_load, rawExists, idxExists) ==
    IF raw_text /\ rawExists THEN "IndexedRawTextDataset"
    ELSE IF idxExists
         THEN (IF lazy_load THEN "IndexedDataset" ELSE "IndexedCachedDataset")
         ELSE NotFound

\* the if / elif / else of the shard: the class opened, or the error raised
Resolve(raw_text, lazy_load, rawExists, idxExists) ==
    IF raw_text /\ rawExists THEN "IndexedRawTextDataset"
    ELSE IF ~raw_text /\ idxExists
         THEN (IF lazy_load THEN "IndexedDataset" ELSE "IndexedCachedDataset")
         ELSE NotFound

\* the exists() calls the condition makes: `and` evaluates its right side
\* only when the left one is true
Probes(raw_text, path) ==
    IF raw_text THEN <<<<"raw", path>>>> ELSE <<<<"idx", path>>>>

\* a mutant: the block keeps all tokens_per_sample tokens
TokenBlockDatasetFull(ds) ==
    [dataset |-> ds,
     block_size |-> args.tokens_per_sample,
     pad |-> dictionary.pad,
     eos |-> dictionary.eos]

TokenBlockDataset(ds) ==
    [dataset |-> ds,
     block_size |-> args.tokens_per_sample - 1,
     pad |-> dictionary.pad,
     eos |-> dictionary.eos]

\* a mutant: segment_id is left at 0
MaskedLMDatasetNoSegment(block_dataset, lang) ==
    [dataset |-> block_dataset,
     pad_idx |-> dictionary.pad,
     mask_idx |-> dictionary.mask,
     classif_token_idx |-> dictionary.eos,
     sep_token_idx |-> dictionary.eos,
     shuffle |-> args.shuffle,
     has_pairs |-> FALSE,
     segment_id |-> 0,
     seed |-> args.seed]

MaskedLMDataset(block_dataset, lang) ==
    [dataset |-> block_dataset,
     pad_idx |-> dictionary.pad,
     mask_idx |-> dictionary.mask,
     classif_token_idx |-> dictionary.eos,
     sep_token_idx |-> dictionary.eos,
     shuffle |-> args.shuffle,
     has_pairs |-> FALSE,
     segment_id |-> langs2id.val[lang],
     seed |-> args.seed]

\* oid names the object the constructor call returns
MultiCorpusSampledDataset(dataset_map, key, oid) ==
    [datasets |-> dataset_map, default_key |-> key, oid |-> oid]

\* a mutant: the default key follows every language iterated
SetDefaultKeyAlways(key, lang) == lang

\* if self.default_key is None: self.default_key = lang
SetDefaultKey(key, lang) == IF key = None THEN lang ELSE key

\* the locals and self.default_key as the loop starts
LoopStart ==
    [default_key |-> default_key, dataset_map |-> EmptyDict, raised |-> FALSE,
     probes |-> <<>>, resolved |-> <<>>]

\* a mutant: the default key is recorded only once the shard is resolved
LoopBodyKeyAfterResolve(split, fs, lang, st) ==
    LET path == PathOf(split, lang)
        cls == Resolve(args.raw_text, args.lazy_load,
                       RawTextExists(fs, path), IndexedExists(fs, path))
        seen == [st EXCEPT !.probes = @ \o Probes(args.raw_text, path),
                           !.resolved = Append(@, <<lang, cls>>)]
    IN  IF cls = NotFound
        THEN [seen EXCEPT !.raised = TRUE]
        ELSE [seen EXCEPT !.default_key = SetDefaultKey(st.default_key, lang),
                          !.dataset_map = DictSet(@, lang,
                              MaskedLMDataset(
                                  TokenBlockDataset([cls |-> cls, path |-> path]), lang))]

\* one iteration of `for lang in self.langs2id.keys()`
LoopBody(split, fs, lang, st) ==
    LET key == SetDefaultKey(st.default_key, lang)
        path == PathOf(split, lang)
        cls == Resolve(args.raw_text, args.lazy_load,
                       RawTextExists(fs, path), IndexedExists(fs, path))
        seen == [st EXCEPT !.default_key = key,
                           !.probes = @ \o Probes(args.raw_text, path),
                           !.resolved = Append(@, <<lang, cls>>)]
    IN  IF cls = NotFound
        THEN [seen EXCEPT !.raised = TRUE]
        ELSE [seen EXCEPT !.dataset_map = DictSet(@, lang,
                              MaskedLMDataset(
                                  TokenBlockDataset([cls |-> cls, path |-> path]), lang))]

\* the loop; the raise leaves it
RECURSIVE ForLangs(_, _, _, _)
ForLangs(split, fs, keys, st) ==
    IF keys = <<>> \/ st.raised THEN st
    ELSE ForLangs(split, fs, Tail(keys), LoopBody(split, fs, Head(keys), st))

\* a mutant: the registry is rebuilt around the new entry
RegistryStoreOnly(registry, split, merged) == split :> merged

\* self.datasets[split] = merged
RegistryStore(registry, split, merged) ==
    [s \in DOMAIN registry \cup {split} |-> IF s = split THEN merged ELSE registry[s]]

\* a mutant: the languages already processed are registered before the raise leaves
RegistryAfterPartial(split, st, oid) ==
    RegistryStore(datasets, split,
        MultiCorpusSampledDataset(st.dataset_map, st.default_key, oid))

\* self.datasets once the call has returned or raised
RegistryAfter(split, st, oid) ==
    IF st.raised THEN datasets
    ELSE RegistryStore(datasets, split,
            MultiCorpusSampledDataset(st.dataset_map, st.default_key, oid))

\* the files among fs of the paths the loop came to
Reached(split, fs, st) ==
    {f \in fs : \E i \in 1..Len(st.resolved) : f[1] = PathOf(split, st.resolved[i][1])}

\* the call's effect, the shard files on disk during it being fs
Load(split, fs) ==
    \E st \in {ForLangs(split, fs, langs2id.keys, LoopStart)} :
        /\ default_key' = st.default_key
        /\ datasets' = RegistryAfter(split, st, nloads + 1)
        /\ last' = [split |-> split, had |-> split \in DOMAIN datasets,
                    fs |-> Reached(split, fs, st), raised |-> st.raised,
                    probes |-> st.probes, resolved |-> st.resolved]

\* a mutant: a split already in the registry is not loaded again
LoadDatasetCached(split) ==
    /\ phase = "ready"
    /\ nloads < MaxLoads
    /\ nloads' = nloads + 1
    /\ IF split \in DOMAIN datasets
       THEN /\ last' = [split |-> split, had |-> TRUE, fs |-> {}, raised |-> FALSE,
                        probes |-> <<>>, resolved |-> <<>>]
            /\ UNCHANGED <<default_key, datasets>>
       ELSE \E fs \in SUBSET FilesOf(split) : Load(split, fs)
    /\ UNCHANGED <<phase, args, dictionary, langs2id>>

LoadDataset(split) ==
    /\ phase = "ready"
    /\ nloads < MaxLoads
    /\ nloads' = nloads + 1
    /\ \E fs \in SUBSET FilesOf(split) : Load(split, fs)
    /\ UNCHANGED <<phase, args, dictionary, langs2id>>

---------------------------------------------------------------------------
(* Construction *)

NoCall ==
    [split |-> "", had |-> FALSE, fs |-> {}, raised |-> FALSE,
     probes |-> <<>>, resolved |-> <<>>]

\* __init__
Construct ==
    /\ phase = "new"
    /\ phase' = "ready"
    /\ langs2id' = _lang_to_id(args.monolingual_langs)
    /\ default_key' = None
    /\ datasets' = <<>>
    /\ UNCHANGED <<args, dictionary, nloads, last>>

\* the ids a dictionary loaded from dict.txt gives its special symbols
MaskedLMDictionary == [pad |-> 1, eos |-> 2, mask |-> 4]

\* and those of other vocabularies
Dictionaries == {MaskedLMDictionary, [pad |-> 0, eos |-> 3, mask |-> 1]}

TokensPerSample == (1..MaxTokens) \cup {128, DefaultTokensPerSample}

\* the --monolingual-langs values of the loading specification:
\* "e", "e, f", "e,f,d", "f,e,f", ",e"
LangLists ==
    {<<"e">>, <<"e", ",", " ", "f">>, <<"e", ",", "f", ",", "d">>,
     <<"f", ",", "e", ",", "f">>, <<",", "e">>}

Args(langs, tokens, raw, lazy, shuffle) ==
    [data |-> "data", tokens_per_sample |-> tokens, monolingual_langs |-> langs,
     raw_text |-> raw, lazy_load |-> lazy, shuffle |-> shuffle, seed |-> 1]

\* a task that setup_task has built
Init ==
    /\ phase = "ready"
    /\ args \in {Args(l, DefaultTokensPerSample, r, z, FALSE) :
                    l \in LangLists, r \in BOOLEAN, z \in BOOLEAN}
    /\ dictionary = MaskedLMDictionary
    /\ langs2id = _lang_to_id(args.monolingual_langs)
    /\ default_key = None
    /\ datasets = <<>>
    /\ nloads = 0
    /\ last = NoCall

Next == \E split \in Splits : LoadDataset(split)

Spec == Init /\ [][Next]_vars

\* a task built for the languages "e, f" from any other options and vocabulary
InitConfig ==
    /\ phase = "ready"
    /\ args \in {Args(<<"e", ",", " ", "f">>, t, r, z, h) :
                    t \in TokensPerSample, r \in BOOLEAN, z \in BOOLEAN, h \in BOOLEAN}
    /\ dictionary \in Dictionaries
    /\ langs2id = _lang_to_id(args.monolingual_langs)
    /\ default_key = None
    /\ datasets = <<>>
    /\ nloads = 0
    /\ last = NoCall

SpecConfig == InitConfig /\ [][Next]_vars

\* a task about to be built from any --monolingual-langs string
InitLangs ==
    /\ phase = "new"
    /\ args \in {Args(l, DefaultTokensPerSample, FALSE, FALSE, FALSE) : l \in StringsUpTo(MaxLen)}
    /\ dictionary = MaskedLMDictionary
    /\ langs2id = EmptyDict
    /\ default_key = None
    /\ datasets = <<>>
    /\ nloads = 0
    /\ last = NoCall

NextLangs == Construct

SpecLangs == InitLangs /\ [][NextLangs]_vars

---------------------------------------------------------------------------
(* The language list read by position, for the claims on _lang_to_id *)

Commas(s) == {i \in 1..Len(s) : s[i] = ","}
NTokens(s) == Cardinality(Commas(s)) + 1

\* the position of the k-th comma; 0 and Len(s) + 1 close the list
NthComma(s, k) ==
    IF k = 0 THEN 0
    ELSE IF k > Cardinality(Commas(s)) THEN Len(s) + 1
    ELSE CHOOSE i \in Commas(s) : Cardinality({j \in Commas(s) : j <= i}) = k

\* the positions of the k-th token that hold no whitespace
Inked(s, k) ==
    {i \in (NthComma(s, k - 1) + 1)..(NthComma(s, k) - 1) : s[i] \notin Whitespace}

\* the k-th token without the whitespace around it
Trimmed(s, k) ==
    IF Inked(s, k) = {} THEN <<>>
    ELSE SubSeq(s, CHOOSE i \in Inked(s, k) : \A j \in Inked(s, k) : i <= j,
                   CHOOSE i \in Inked(s, k) : \A j \in Inked(s, k) : j <= i)

HasDuplicates(s) ==
    \E j, k \in 1..NTokens(s) : j # k /\ Trimmed(s, j) = Trimmed(s, k)

\* the k-th token is the key with id k - 1, for every k
IdsFollowInput(s) ==
    /\ Len(langs2id.keys) = NTokens(s)
    /\ \A k \in 1..NTokens(s) :
          /\ langs2id.keys[k] = Trimmed(s, k)
          /\ langs2id.val[Trimmed(s, k)] = k - 1
    /\ {langs2id.val[l] : l \in Range(langs2id.keys)} = 0..(NTokens(s) - 1)

---------------------------------------------------------------------------
(* Claims on _lang_to_id, under SpecLangs *)

\* C4, as stated: for every language list the mapping gives the k-th token,
\* trimmed, the id k - 1, and its ids are 0..n-1.
C4_AnyListIdsFollowInput ==
    phase = "ready" => IdsFollowInput(args.monolingual_langs)

\* C4, amended: for every language list whose trimmed tokens are pairwise
\* distinct the mapping gives the k-th token, trimmed, the id k - 1, its keys
\* are in input order and its ids are 0..n-1.
C4_DistinctListIdsFollowInput ==
    (phase = "ready" /\ ~HasDuplicates(args.monolingual_langs))
        => IdsFollowInput(args.monolingual_langs)

\* three distinct tokens, one of them with whitespace around it, mapped to 0, 1, 2
C4_Witness ==
    /\ phase = "ready"
    /\ ~HasDuplicates(args.monolingual_langs)
    /\ NTokens(args.monolingual_langs) = 3
    /\ \E i \in 1..Len(args.monolingual_langs) : args.monolingual_langs[i] \in Whitespace
    /\ \E l \in Range(langs2id.keys) : l # <<>> /\ langs2id.val[l] = 1
    /\ {langs2id.val[l] : l \in Range(langs2id.keys)} = 0..2

\* C9: the mapping holds one entry per distinct trimmed token, whose id is the
\* index of the token's last occurrence; distinct languages have distinct ids,
\* and a list with a repeated code gives fewer entries than it has tokens.
C9_DuplicatesTakeLastSlot ==
    phase = "ready" =>
        LET s == args.monolingual_langs
        IN  /\ Range(langs2id.keys) = {Trimmed(s, k) : k \in 1..NTokens(s)}
            /\ Len(langs2id.keys) = Cardinality(Range(langs2id.keys))
            /\ \A l \in Range(langs2id.keys) :
                  /\ langs2id.val[l] + 1 \in 1..NTokens(s)
                  /\ Trimmed(s, langs2id.val[l] + 1) = l
                  /\ \A k \in 1..NTokens(s) : Trimmed(s, k) = l => k <= langs2id.val[l] + 1
            /\ \A l, m \in Range(langs2id.keys) : l # m => langs2id.val[l] # langs2id.val[m]
            /\ HasDuplicates(s) => Len(langs2id.keys) < NTokens(s)

\* "e,f,e": e is entered once and holds id 2, f holds id 1
C9_Witness ==
    /\ phase = "ready"
    /\ args.monolingual_langs = <<"e", ",", "f", ",", "e">>
    /\ langs2id.keys = <<<<"e">>, <<"f">>>>
    /\ langs2id.val[<<"e">>] = 2
    /\ langs2id.val[<<"f">>] = 1

---------------------------------------------------------------------------
(* Claims on load_dataset, under Spec *)

\* a step that is a load_dataset call
Called == nloads' = nloads + 1

\* the shard class inside the dataset registered for lang under split
ShardClass(split, lang) == datasets[split].datasets.val[lang].dataset.dataset.cls

IndexedClass == IF args.lazy_load THEN "IndexedDataset" ELSE "IndexedCachedDataset"

\* C1, as stated: a raw-text shard is loaded when raw-text is set and it
\* exists; otherwise a binary-indexed shard is loaded when it exists, raw-text
\* set or not; only with neither does the load fail.
C1_IndexedIsFallback ==
    \A i \in 1..Len(last.resolved) :
        LET path == PathOf(last.split, last.resolved[i][1])
            cls == last.resolved[i][2]
            raw == <<path, "raw">> \in last.fs
            idx == <<path, "idx">> \in last.fs
        IN  /\ (args.raw_text /\ raw) => cls = "IndexedRawTextDataset"
            /\ (~(args.raw_text /\ raw) /\ idx) => cls = IndexedClass
            /\ (~(args.raw_text /\ raw) /\ ~idx) => cls = NotFound

\* C1, amended: with raw-text set the shard is loaded as raw text when a
\* raw-text shard exists and the load fails when none does, a binary-indexed
\* shard being there or not; with raw-text unset a binary-indexed shard is
\* loaded when it exists (lazily under lazy-load, cached otherwise) and the
\* load fails when none does. The call raises exactly when a shard fails, and
\* the classes opened are those of the registered datasets.
C1_ShardFollowsMode ==
    /\ \A i \in 1..Len(last.resolved) :
        LET path == PathOf(last.split, last.resolved[i][1])
            cls == last.resolved[i][2]
            raw == <<path, "raw">> \in last.fs
            idx == <<path, "idx">> \in last.fs
        IN  /\ (args.raw_text /\ raw) => cls = "IndexedRawTextDataset"
            /\ (args.raw_text /\ ~raw) => cls = NotFound
            /\ (~args.raw_text /\ idx) => cls = IndexedClass
            /\ (~args.raw_text /\ ~idx) => cls = NotFound
            /\ (cls = NotFound) => (last.raised /\ i = Len(last.resolved))
            /\ (cls # NotFound /\ ~last.raised) =>
                  ShardClass(last.split, last.resolved[i][1]) = cls
    /\ last.raised =>
          (last.resolved # <<>> /\ last.resolved[Len(last.resolved)][2] = NotFound)

\* raw-text set, no raw-text shard, a binary-indexed shard on disk: the call raised
C1_Witness ==
    /\ args.raw_text
    /\ last.raised
    /\ Len(last.resolved) = 2
    /\ LET path == PathOf(last.split, last.resolved[2][1])
       IN  <<path, "raw">> \notin last.fs /\ <<path, "idx">> \in last.fs

\* C2, as stated: a load_dataset call for a split the registry holds makes no
\* exists() call and leaves the registry as it is.
C2_ReloadIsCacheHit ==
    [][(Called /\ last'.had) => (last'.probes = <<>> /\ datasets' = datasets)]_vars

\* C2, amended: a load_dataset call for a split the registry holds probes the
\* shards again; when all resolve it has probed every language and puts a newly
\* built merged dataset, equal to the old one in all but identity, in the old
\* one's place; when one fails the old entry stays.
C2_ReloadRebuilds ==
    [][(Called /\ last'.had) =>
          /\ last'.probes # <<>>
          /\ last'.raised => datasets' = datasets
          /\ ~last'.raised =>
                /\ Len(last'.probes) = Len(langs2id.keys)
                /\ DOMAIN datasets' = DOMAIN datasets
                /\ \A s \in DOMAIN datasets : datasets'[last'.split].oid # datasets[s].oid
                /\ [datasets'[last'.split] EXCEPT !.oid = datasets[last'.split].oid]
                      = datasets[last'.split]
      ]_vars

\* a split loaded, then loaded again with success: the entry is the second object
C2_Witness ==
    /\ nloads = 2
    /\ last.had
    /\ ~last.raised
    /\ Len(last.probes) >= 2
    /\ datasets[last.split].oid = 2

\* C3: a load_dataset call that raises leaves the registry exactly as it was:
\* no entry appears under its split, and an earlier entry of its split stays.
C3_FailureKeepsRegistry ==
    [][(Called /\ last'.raised) => datasets' = datasets]_vars

\* the third of three languages failed, for a split loaded before: nothing of
\* the two languages processed is in the registry, the earlier entry is
C3_Witness ==
    /\ last.raised
    /\ Len(last.resolved) = 3
    /\ last.had
    /\ nloads = 2
    /\ datasets[last.split].oid = 1
    /\ DOMAIN datasets = {last.split}

\* C5: once set, default_key does not change; the first call sets it to the
\* first language it iterates; each merged dataset is built with it.
C5_DefaultKeySetOnce ==
    [][/\ default_key # None => default_key' = default_key
       /\ (Called /\ default_key = None) =>
             (default_key' = last'.resolved[1][1] /\ default_key' = langs2id.keys[1])
       /\ (Called /\ ~last'.raised) => datasets'[last'.split].default_key = default_key'
      ]_vars

\* a failed call, then both splits loaded, for two or more languages: the key
\* is the first language in both merged datasets
C5_Witness ==
    /\ nloads = 3
    /\ Len(langs2id.keys) >= 2
    /\ DOMAIN datasets = Splits
    /\ \A s \in Splits : datasets[s].oid > 1
    /\ default_key = langs2id.keys[1]
    /\ \A s \in Splits : datasets[s].default_key = langs2id.keys[1]

\* C6: a load_dataset call, returning or raising, leaves the entry of every
\* other split as it was.
C6_OtherSplitsUntouched ==
    [][Called =>
          \A s \in DOMAIN datasets :
              s # last'.split => (s \in DOMAIN datasets' /\ datasets'[s] = datasets[s])
      ]_vars

\* "train" loaded, then "valid": "train" is still the first object
C6_Witness ==
    /\ DOMAIN datasets = Splits
    /\ last.split = "valid"
    /\ ~last.raised
    /\ datasets["train"].oid = 1
    /\ datasets["valid"].oid = 2

\* C7: under every split the dataset keyed by a language carries the id the
\* mapping gives that language, and every language of the mapping has one; so
\* a language has one segment id in all splits.
C7_SegmentIdIsLangId ==
    /\ \A s \in DOMAIN datasets :
          /\ Range(datasets[s].datasets.keys) = Range(langs2id.keys)
          /\ \A l \in Range(langs2id.keys) :
                datasets[s].datasets.val[l].segment_id = langs2id.val[l]
    /\ \A s, t \in DOMAIN datasets : \A l \in Range(langs2id.keys) :
          datasets[s].datasets.val[l].segment_id = datasets[t].datasets.val[l].segment_id

\* "f,e,f" loaded for both splits: f carries 2 and e carries 1 in both
C7_Witness ==
    /\ DOMAIN datasets = Splits
    /\ args.monolingual_langs = <<"f", ",", "e", ",", "f">>
    /\ \A s \in Splits :
          /\ datasets[s].datasets.val[<<"f">>].segment_id = 2
          /\ datasets[s].datasets.val[<<"e">>].segment_id = 1

\* C10: default_key is unset or the first key of the mapping, and is set once
\* a call has been made, raised or not, and so whenever the registry holds an
\* entry; each merged dataset holds the mapping's languages in mapping order,
\* and its default key, the task's, is one of them.
C10_DefaultKeyIsFirstKey ==
    /\ default_key \in {None, langs2id.keys[1]}
    /\ nloads > 0 => default_key # None
    /\ DOMAIN datasets # {} => default_key # None
    /\ \A s \in DOMAIN datasets :
          /\ datasets[s].datasets.keys = langs2id.keys
          /\ datasets[s].default_key = default_key
          /\ datasets[s].default_key \in Range(datasets[s].datasets.keys)

\* one call, failed on its first language: default_key is set, the registry empty
C10_Witness ==
    /\ nloads = 1
    /\ last.raised
    /\ Len(last.resolved) = 1
    /\ Len(langs2id.keys) >= 2
    /\ default_key = langs2id.keys[1]
    /\ DOMAIN datasets = {}

---------------------------------------------------------------------------
(* Claim on the block segmenter, under SpecConfig *)

\* C8: the block segmenter of every language under every split has block size
\* tokens_per_sample - 1 and the vocabulary's pad and eos ids.
C8_BlockSizeIsTokensMinusOne ==
    \A s \in DOMAIN datasets : \A l \in Range(datasets[s].datasets.keys) :
        LET block == datasets[s].datasets.val[l].dataset
        IN  /\ block.block_size + 1 = args.tokens_per_sample
            /\ block.pad = dictionary.pad
            /\ block.eos = dictionary.eos

\* both splits loaded with 128 tokens per sample: blocks of 127 for both languages
C8_Witness ==
    /\ DOMAIN datasets = Splits
    /\ args.tokens_per_sample = 128
    /\ Len(langs2id.keys) = 2
    /\ \A s \in Splits : \A l \in Range(langs2id.keys) :
          datasets[s].datasets.val[l].dataset.block_size = 127

====
